---- MODULE Spec2Model ----
(***************************************************************************)
(* A model of grammar-rs: the winnow-based JSON value parser (json.rs) and *)
(* the NGINX combined-log-line parser (nginx_log.rs).                      *)
(*                                                                         *)
(* Text is a sequence of characters (strings); a cursor (&mut &str) is     *)
(* the remaining text.  Every parser is an operator from a cursor to a     *)
(* result: Ok(value, rest) or Err(origin, rest), where rest is the cursor  *)
(* the parser leaves behind (winnow leaves the cursor wherever the failing *)
(* sub-parser stopped; only alt, opt, separated and parse_to rewind it).   *)
(* A function body reads top to bottom as its Rust does: Let binds a       *)
(* local, Try is the `?` operator.                                         *)
(***************************************************************************)
EXTENDS Integers, Sequences, FiniteSets, TLC

VARIABLES pc, input, base, rest, called, result, trace, locals

vars == <<pc, input, base, rest, called, result, trace, locals>>

(***************************************************************************)
(* Text helpers                                                            *)
(***************************************************************************)
Chars(s) == [k \in 1..Len(s) |-> SubSeq(s, k, k)]

Take(i, n) == SubSeq(i, 1, n)

Drop(i, n) == SubSeq(i, n + 1, Len(i))

StartsWith(i, lit) == Len(i) >= Len(lit) /\ Take(i, Len(lit)) = lit

Least(S) == CHOOSE k \in S : \A j \in S : k <= j

\* Length of the longest prefix of i whose characters all lie in S.
RunLen(i, S) ==
    LET bad == {k \in 1..Len(i) : i[k] \notin S}
    IN  IF bad = {} THEN Len(i) ELSE Least(bad) - 1

\* Length of the longest prefix of i that holds no character of S.
RunLenTill(i, S) ==
    LET hit == {k \in 1..Len(i) : i[k] \in S}
    IN  IF hit = {} THEN Len(i) ELSE Least(hit) - 1

Digits == {"0", "1", "2", "3", "4", "5", "6", "7", "8", "9"}

\* winnow::ascii::multispace0 takes ' ', '\t', '\r', '\n'.
MultiSpace == {" ", "\t", "\r", "\n"}

\* winnow::ascii::space0 takes ' ' and '\t'.
Space == {" ", "\t"}

Unit == "()"

Ok(v, r) == [ok |-> TRUE, val |-> v, rest |-> r]

Err(e, r) == [ok |-> FALSE, err |-> e, rest |-> r]

\* `let v = ...;`: the rest of the function body, K, sees the value.
Let(v, K(_)) == K(v)

\* `r?`: an Err (or a panic) ends the function and is what it returns.
Try(r, K(_)) == IF r.ok THEN K(r) ELSE r

\* One alternative of alt: its success stands, else the next is tried.
OrElse(r, next) == IF r.ok THEN r ELSE next

\* Parser::map / Parser::value
Map(r, F(_)) == IF r.ok THEN Ok(F(r.val), r.rest) ELSE r

(***************************************************************************)
(* winnow primitives, as the repository uses them                          *)
(***************************************************************************)
\* A &str or char literal used as a parser: consumes nothing on a mismatch.
literal(lit, i) ==
    IF StartsWith(i, lit) THEN Ok(lit, Drop(i, Len(lit))) ELSE Err("Literal", i)

\* alt over string literals, tried in the declared order.
alt_literals(lits, i) ==
    LET hits == {k \in 1..Len(lits) : StartsWith(i, lits[k])}
    IN  IF hits = {} THEN Err("Alt", i) ELSE literal(lits[Least(hits)], i)

digit1(i) ==
    LET n == RunLen(i, Digits)
    IN  IF n = 0 THEN Err("Digit1", i) ELSE Ok(Take(i, n), Drop(i, n))

multispace0(i) ==
    LET n == RunLen(i, MultiSpace) IN Ok(Take(i, n), Drop(i, n))

space0(i) ==
    LET n == RunLen(i, Space) IN Ok(Take(i, n), Drop(i, n))

\* take_until(min.., ch): up to, not including, the first ch, which must exist.
take_until(min, ch, i) ==
    LET n == RunLenTill(i, {ch})
    IN  IF n = Len(i) \/ n < min THEN Err("TakeUntil", i)
        ELSE Ok(Take(i, n), Drop(i, n))

\* take_till(min.., ch): up to the first ch or to the end of the input.
take_till(min, ch, i) ==
    LET n == RunLenTill(i, {ch})
    IN  IF n < min THEN Err("TakeTill", i) ELSE Ok(Take(i, n), Drop(i, n))

(***************************************************************************)
(* Integers wider than the checker's own are canonical digit sequences.    *)
(***************************************************************************)
StripZeros(ds) ==
    LET n == RunLen(ds, {"0"})
    IN  IF n = Len(ds) THEN <<"0">> ELSE Drop(ds, n)

DigitVal(c) ==
    CASE c = "0" -> 0 [] c = "1" -> 1 [] c = "2" -> 2 [] c = "3" -> 3 [] c = "4" -> 4
      [] c = "5" -> 5 [] c = "6" -> 6 [] c = "7" -> 7 [] c = "8" -> 8 [] c = "9" -> 9

\* a <= b for canonical digit sequences.
BigLE(a, b) ==
    \/ Len(a) < Len(b)
    \/ /\ Len(a) = Len(b)
       /\ \/ a = b
          \/ LET diff == {k \in 1..Len(a) : a[k] # b[k]}
             IN  diff # {} /\ DigitVal(a[Least(diff)]) < DigitVal(b[Least(diff)])

I64Max == Chars("9223372036854775807")

U64Max == Chars("18446744073709551615")

\* str::parse::<iN/uN> of a run of digits: the value, or None when it
\* exceeds the type's maximum.
ParseBig(ds, max) ==
    LET v == StripZeros(ds)
    IN  IF BigLE(v, max) THEN [some |-> TRUE, v |-> v] ELSE [some |-> FALSE]

\* Mutant: the conversion is not range-checked.
digit1_to_i64_unchecked(i) == Map(digit1(i), StripZeros)

\* digit1.parse_to::<i64>(): on a failed conversion parse_to rewinds to
\* where it started and raises its own error (the conversion's is dropped).
digit1_to_i64(i) ==
    Try(digit1(i), LAMBDA d :
    Let(ParseBig(d.val, I64Max), LAMBDA v :
    IF v.some THEN Ok(v.v, d.rest) ELSE Err("ParseTo", i)))

(***************************************************************************)
(* json.rs                                                                 *)
(***************************************************************************)
NumInt(neg, mag) == [num |-> "Int", neg |-> neg /\ mag # <<"0">>, mag |-> mag]

DigitChar(d) == <<"0", "1", "2", "3", "4", "5", "6", "7", "8", "9">>[d + 1]

\* K applied to the value of v, which is computed once, before K.
Eval(v, K(_)) == CHOOSE r \in {K(x) : x \in {v}} : TRUE

\* 2 * x: a digit of 5 or more carries one into the digit on its left.
Double(x) ==
    Eval(x, LAMBDA ds :
    Eval([k \in 1..Len(ds) + 1 |->
             DigitChar((IF k = 1 THEN 0 ELSE (2 * DigitVal(ds[k - 1])) % 10)
                       + IF k <= Len(ds) /\ DigitVal(ds[k]) >= 5 THEN 1 ELSE 0)],
         LAMBDA r : StripZeros(r)))

\* x div 2: an odd digit hands five to the digit on its right.
Half(x) ==
    Eval(x, LAMBDA ds :
    Eval([k \in 1..Len(ds) |->
             DigitChar(DigitVal(ds[k]) \div 2
                       + IF k > 1 /\ DigitVal(ds[k - 1]) % 2 = 1 THEN 5 ELSE 0)],
         LAMBDA r : StripZeros(r)))

IsOdd(ds) == DigitVal(ds[Len(ds)]) % 2 = 1

\* x + 1: the trailing nines turn to zeros.
Succ(x) ==
    Eval(x, LAMBDA ds :
    Eval(Least({k \in 0..Len(ds) : \A j \in k + 1..Len(ds) : ds[j] = "9"}), LAMBDA keep :
    IF keep = 0 THEN <<"1">> \o [k \in 1..Len(ds) |-> "0"]
    ELSE [k \in 1..Len(ds) |->
             IF k < keep THEN ds[k]
             ELSE IF k = keep THEN DigitChar(DigitVal(ds[k]) + 1) ELSE "0"]))

\* The significand of an f64 has 53 bits.
Pow2_52 == Chars("4503599627370496")

Pow2_53 == Chars("9007199254740992")

Pow2_54 == Chars("18014398509481984")

\* t * 2^j and q div 2^j
RECURSIVE Shl(_, _)
Shl(t, j) == IF j = 0 THEN t ELSE Shl(Double(t), j - 1)

RECURSIVE Shr(_, _)
Shr(q, j) == IF j = 0 THEN q ELSE Shr(Half(q), j - 1)

\* floor(t / 10^k)
IntPart(t, k) == IF Len(t) <= k THEN <<"0">> ELSE Take(t, Len(t) - k)

\* t doubled until floor(t / 10^k) >= 2^53, and whether the division cuts
\* anything off; s counts the doublings, which are tried j at a time, then
\* j/2 at a time, down to one at a time.
RECURSIVE ScaleUp(_, _, _, _)
ScaleUp(t, k, s, j) ==
    IF BigLE(Pow2_53, IntPart(t, k))
    THEN [q |-> IntPart(t, k), s |-> s,
          sticky |-> \E p \in 1..Len(t) : p > Len(t) - k /\ t[p] # "0"]
    ELSE Eval(Shl(t, j), LAMBDA u :
         IF j = 1 \/ ~BigLE(Pow2_53, IntPart(u, k))
         THEN Eval(s + j, LAMBDA sj : ScaleUp(u, k, sj, j))
         ELSE Eval(j \div 2, LAMBDA h : ScaleUp(t, k, s, h)))

\* q halved until below 2^54, remembering whether a one was shifted out;
\* the halvings are tried j at a time, then j/2, down to one at a time.
RECURSIVE ScaleDown(_, _, _, _)
ScaleDown(q, sticky, s, j) ==
    IF ~BigLE(Pow2_54, q) THEN [q |-> q, sticky |-> sticky, s |-> s]
    ELSE Eval(Shr(q, j), LAMBDA u :
         IF j = 1 \/ BigLE(Pow2_54, u)
         THEN Eval(<<sticky \/ Shl(u, j) # q, s - j>>, LAMBDA d :
              ScaleDown(u, d[1], d[2], j))
         ELSE Eval(j \div 2, LAMBDA h : ScaleDown(q, sticky, s, h)))

\* The f64 nearest to n / 10^k, ties to even, for n > 0: the 53-bit
\* significand m and the exponent e of the value m * 2^e.  g.q holds the
\* first 54 bits of the quotient, its last bit being the rounding bit.
f64_round(n, k) ==
    Eval(ScaleUp(n, k, 0, 8), LAMBDA u :
    Eval(ScaleDown(u.q, u.sticky, u.s, 8), LAMBDA g :
    Eval(Half(g.q), LAMBDA h :
    Eval(IF IsOdd(g.q) /\ (g.sticky \/ IsOdd(h)) THEN Succ(h) ELSE h, LAMBDA m :
    IF m = Pow2_53 THEN [m |-> Pow2_52, e |-> 2 - g.s]
    ELSE [m |-> m, e |-> 1 - g.s]))))

\* str::parse::<f64> of "<digits>.<digits>": the correctly rounded f64, as
\* significand and exponent (zero is m = 0, e = 0).  The texts have a few
\* dozen digits at most, so the value is zero or a normal number.
f64_from_str(text) ==
    Eval(RunLenTill(text, {"."}), LAMBDA n :
    Eval(StripZeros(Take(text, n) \o Drop(text, n + 1)), LAMBDA ds :
    IF ds = <<"0">> THEN [m |-> <<"0">>, e |-> 0]
    ELSE Eval(<<ds, Len(text) - n - 1>>, LAMBDA a : f64_round(a[1], a[2]))))

\* if sign { -v } else { v }: negation flips the sign bit, of zero as well.
NumFloat(neg, f) == [num |-> "Float", neg |-> neg, m |-> f.m, e |-> f.e]

\* format!("{}.{}", num, frac): Display of an i64 is its canonical digits.
format_num_frac(num, frac) == num \o <<".">> \o frac

parse_null(i) == Map(literal(Chars("null"), i), LAMBDA v : Unit)

parse_bool(i) ==
    Map(alt_literals(<<Chars("true"), Chars("false")>>, i), LAMBDA v : v = Chars("true"))

parse_num(i) ==
    Let(literal(<<"-">>, i), LAMBDA sign :
    Try(digit1_to_i64(sign.rest), LAMBDA num :
    Let(literal(<<".">>, num.rest), LAMBDA ret :
    IF ret.ok
    THEN Try(digit1_to_i64(ret.rest), LAMBDA frac :
         Ok(NumFloat(sign.ok, f64_from_str(format_num_frac(num.val, frac.val))),
            frac.rest))
    ELSE Ok(NumInt(sign.ok, num.val), num.rest))))

parse_string(i) ==
    Try(literal(<<"\"">>, i), LAMBDA l :
    Try(take_until(0, "\"", l.rest), LAMBDA body :
    Try(literal(<<"\"">>, body.rest), LAMBDA r :
    Ok(body.val, r.rest))))

\* Mutant: the white space after the token is not skipped.
sep_with_leading_space_only(ch, i) ==
    Try(multispace0(i), LAMBDA before :
    Try(literal(<<ch>>, before.rest), LAMBDA p :
    Ok(Unit, p.rest)))

sep_with_space(ch, i) ==
    Try(multispace0(i), LAMBDA before :
    Try(literal(<<ch>>, before.rest), LAMBDA p :
    Try(multispace0(p.rest), LAMBDA after :
    Ok(Unit, after.rest))))

JNull == [t |-> "Null"]

JBool(b) == [t |-> "Bool", v |-> b]

JNumber(n) == [t |-> "Number", v |-> n]

JString(s) == [t |-> "String", v |-> s]

JArray(a) == [t |-> "Array", v |-> a]

JObject(m) == [t |-> "Object", v |-> m]

\* HashMap::insert: a later pair with the same key replaces the earlier.
Insert(m, k, v) == [x \in DOMAIN m \cup {k} |-> IF x = k THEN v ELSE m[x]]

EmptyMap == [x \in {} |-> JNull]

RECURSIVE parse_value(_)
RECURSIVE parse_array(_)
RECURSIVE parse_object(_)
RECURSIVE parse_values(_)
RECURSIVE parse_values_more(_, _)
RECURSIVE parse_kv_pair(_)
RECURSIVE parse_kv(_)
RECURSIVE parse_kv_more(_, _)

\* Mutant: a separator whose item fails stays consumed.
parse_values_more_no_rewind(acc, i) ==
    Let(sep_with_space(",", i), LAMBDA s :
    IF ~s.ok THEN Ok(acc, i)
    ELSE Let(parse_value(s.rest), LAMBDA p :
         IF ~p.ok THEN Ok(acc, s.rest)
         ELSE parse_values_more(Append(acc, p.val), p.rest)))

\* separated(0.., parse_value, separator), after the first item: a step is
\* separator then item; a step that fails rewinds to before its separator.
parse_values_more(acc, i) ==
    Let(sep_with_space(",", i), LAMBDA s :
    IF ~s.ok THEN Ok(acc, i)
    ELSE Let(parse_value(s.rest), LAMBDA p :
         IF ~p.ok THEN Ok(acc, i)
         ELSE parse_values_more(Append(acc, p.val), p.rest)))

\* separated(0.., parse_value, separator): no first item is an empty list.
parse_values(i) ==
    Let(parse_value(i), LAMBDA p :
    IF ~p.ok THEN Ok(<<>>, i) ELSE parse_values_more(<<p.val>>, p.rest))

parse_array(i) ==
    Try(sep_with_space("[", i), LAMBDA l :
    Try(parse_values(l.rest), LAMBDA vs :
    Try(sep_with_space("]", vs.rest), LAMBDA r :
    Ok(vs.val, r.rest))))

\* separated_pair(parse_string, key_value_separator, parse_value)
parse_kv_pair(i) ==
    Try(parse_string(i), LAMBDA k :
    Try(sep_with_space(":", k.rest), LAMBDA c :
    Try(parse_value(c.rest), LAMBDA v :
    Ok(<<k.val, v.val>>, v.rest))))

parse_kv_more(acc, i) ==
    Let(sep_with_space(",", i), LAMBDA s :
    IF ~s.ok THEN Ok(acc, i)
    ELSE Let(parse_kv_pair(s.rest), LAMBDA p :
         IF ~p.ok THEN Ok(acc, i)
         ELSE parse_kv_more(Insert(acc, p.val[1], p.val[2]), p.rest)))

\* Mutant: separated(0.., ..) in place of separated(1.., ..).
parse_kv_from_zero(i) ==
    Let(parse_kv_pair(i), LAMBDA p :
    IF ~p.ok THEN Ok(EmptyMap, i)
    ELSE parse_kv_more(Insert(EmptyMap, p.val[1], p.val[2]), p.rest))

\* separated(1.., parse_kv_pair, pair_separator): the first pair must parse.
parse_kv(i) ==
    Try(parse_kv_pair(i), LAMBDA p :
    parse_kv_more(Insert(EmptyMap, p.val[1], p.val[2]), p.rest))

parse_object(i) ==
    Try(sep_with_space("{", i), LAMBDA l :
    Try(parse_kv(l.rest), LAMBDA kv :
    Try(sep_with_space("}", kv.rest), LAMBDA r :
    Ok(kv.val, r.rest))))

\* alt of the six alternatives: the cursor is rewound before each one, and
\* is left where the last one stopped when all of them fail.
parse_value(i) ==
    OrElse(Map(parse_null(i), LAMBDA v : JNull),
    OrElse(Map(parse_bool(i), JBool),
    OrElse(Map(parse_num(i), JNumber),
    OrElse(Map(parse_string(i), JString),
    OrElse(Map(parse_array(i), JArray),
    Let(Map(parse_object(i), JObject), LAMBDA o :
    IF o.ok THEN o ELSE Err("Alt", o.rest)))))))

\* Mutant: text left after the value is a failure.
parse_json_to_end(text) ==
    Let(parse_value(text), LAMBDA r :
    IF r.ok /\ r.rest = <<>> THEN [ok |-> TRUE, val |-> r.val] ELSE [ok |-> FALSE])

\* parse_json keeps the value and drops the cursor; a failure becomes the
\* anyhow error "Failed to parse JSON: ...".
parse_json(text) ==
    Let(parse_value(text), LAMBDA r :
    IF r.ok THEN [ok |-> TRUE, val |-> r.val] ELSE [ok |-> FALSE])

(***************************************************************************)
(* nginx_log.rs                                                            *)
(***************************************************************************)
\* The value of canonical digits that fit an i32.
RECURSIVE BigToInt(_)
BigToInt(ds) ==
    IF ds = <<>> THEN 0
    ELSE 10 * BigToInt(Take(ds, Len(ds) - 1)) + DigitVal(ds[Len(ds)])

\* digit1.parse_to::<u8>() and ::<u16>(): max is the type's maximum.
digit1_to_small(max, i) ==
    Try(digit1(i), LAMBDA d :
    Let(ParseBig(d.val, max), LAMBDA v :
    IF v.some THEN Ok(BigToInt(v.v), d.rest) ELSE Err("ParseTo", i)))

U8Max == Chars("255")

U16Max == Chars("65535")

\* separated(4, digit1.parse_to::<u8>(), "."): exactly four octets; an
\* error of an octet or of a "." is passed on with the cursor where it is.
RECURSIVE parse_octets(_, _)
parse_octets(acc, i) ==
    IF Len(acc) = 4 THEN Ok(acc, i)
    ELSE Try(IF acc = <<>> THEN Ok(Unit, i) ELSE literal(<<".">>, i), LAMBDA s :
         Try(digit1_to_small(U8Max, s.rest), LAMBDA o :
         parse_octets(Append(acc, o.val), o.rest)))

parse_ip(i) ==
    Try(parse_octets(<<>>, i), LAMBDA digits :
    Try(space0(digits.rest), LAMBDA sp :
    Ok(digits.val, sp.rest)))

parse_ignore(i) == Map(literal(Chars("- - "), i), LAMBDA v : Unit)

\* ---- chrono: DateTime::parse_from_str(s, "%d/%b/%Y:%H:%M:%S %z") ----
UpperCase == Chars("ABCDEFGHIJKLMNOPQRSTUVWXYZ")

LowerCase == Chars("abcdefghijklmnopqrstuvwxyz")

Lower(c) ==
    IF \E k \in 1..26 : UpperCase[k] = c
    THEN LowerCase[CHOOSE k \in 1..26 : UpperCase[k] = c]
    ELSE c

MonthAbbrev ==
    <<"jan", "feb", "mar", "apr", "may", "jun",
      "jul", "aug", "sep", "oct", "nov", "dec">>

\* A character of a text is a string: an ASCII character is the string of
\* that one character, and any other character is written by its code
\* point, "U+" and its four to six hexadecimal digits ("U+2212" is the minus
\* sign, "U+3000" the ideographic space).
\* char::is_whitespace: the 25 characters of the White_Space property.
UnicodeSpace ==
    {"\t", "\n", "", "\f", "\r", " ", "U+0085", "U+00A0", "U+1680",
     "U+2000", "U+2001", "U+2002", "U+2003", "U+2004", "U+2005", "U+2006",
     "U+2007", "U+2008", "U+2009", "U+200A", "U+2028", "U+2029", "U+202F",
     "U+205F", "U+3000"}

\* char::len_utf8: one byte for ASCII, two up to U+07FF, three up to U+FFFF,
\* four above.
len_utf8(c) ==
    IF Len(c) = 1 THEN 1
    ELSE IF Len(c) > 6 THEN 4
    ELSE IF SubSeq(c, 3, 3) = "0" /\ SubSeq(c, 4, 4) \in {"0", "1", "2", "3", "4", "5", "6", "7"}
    THEN 2
    ELSE 3

\* str::len: the length in bytes.
ByteLen(i) ==
    Len(i) + Cardinality({k \in 1..Len(i) : len_utf8(i[k]) >= 2})
           + Cardinality({k \in 1..Len(i) : len_utf8(i[k]) >= 3})
           + Cardinality({k \in 1..Len(i) : len_utf8(i[k]) >= 4})

\* str::trim_start
trim_start(i) == Drop(i, RunLen(i, UnicodeSpace))

\* Item::Literal of one character.
chrono_literal(ch, i) ==
    IF i = <<>> THEN Err("TooShort", i)
    ELSE IF i[1] # ch THEN Err("Invalid", i)
    ELSE Ok(ch, Drop(i, 1))

\* scan::number(s, 1, max): one to max digits, as an i64.
scan_number(max, i) ==
    IF i = <<>> THEN Err("TooShort", i)
    ELSE IF i[1] \notin Digits THEN Err("Invalid", i)
    ELSE Let(IF RunLen(i, Digits) > max THEN max ELSE RunLen(i, Digits), LAMBDA w :
         Let(ParseBig(Take(i, w), I64Max), LAMBDA v :
         IF v.some THEN Ok(v.v, Drop(i, w)) ELSE Err("OutOfRange", i)))

\* Item::Numeric: white space is skipped; a signed item (%Y) that starts
\* with '+' or '-' takes any number of digits, else at most width digits.
\* The value is a sign and a magnitude.
chrono_number(width, signed, i) ==
    Let(trim_start(i), LAMBDA t :
    IF signed /\ t # <<>> /\ t[1] \in {"+", "-"}
    THEN Try(scan_number(Len(t), Drop(t, 1)), LAMBDA v :
         Ok([neg |-> t[1] = "-" /\ v.val # <<"0">>, mag |-> v.val], v.rest))
    ELSE Try(scan_number(width, t), LAMBDA v :
         Ok([neg |-> FALSE, mag |-> v.val], v.rest)))

I32Max == Chars("2147483647")

I32MinMagnitude == Chars("2147483648")

\* i32::try_from of a numeric item's value.
InI32(v) == BigLE(v.mag, I32Max) \/ (v.neg /\ v.mag = I32MinMagnitude)

ToInt(v) ==
    IF v.mag = I32MinMagnitude THEN -2147483647 - 1
    ELSE IF v.neg THEN 0 - BigToInt(v.mag) ELSE BigToInt(v.mag)

\* Parsed::set_day, set_hour, set_minute, set_second: the value must lie
\* in lo..hi.
chrono_set(lo, hi, r) ==
    Try(r, LAMBDA v :
    IF InI32(v.val) /\ lo <= ToInt(v.val) /\ ToInt(v.val) <= hi
    THEN Ok(ToInt(v.val), v.rest) ELSE Err("OutOfRange", v.rest))

\* Parsed::set_year: the value must be an i32.
chrono_set_year(r) ==
    Try(r, LAMBDA v :
    IF InI32(v.val) THEN Ok(ToInt(v.val), v.rest) ELSE Err("OutOfRange", v.rest))

\* %b, scan::short_month0: three bytes, compared without regard to case; a
\* byte of a character outside ASCII matches no letter.
chrono_short_month(i) ==
    IF ByteLen(i) < 3 THEN Err("TooShort", i)
    ELSE IF Len(i) < 3 THEN Err("Invalid", i)
    ELSE Let({m \in 1..12 : Chars(MonthAbbrev[m]) = [k \in 1..3 |-> Lower(i[k])]},
         LAMBDA hits :
         IF hits = {} THEN Err("Invalid", i)
         ELSE Ok(CHOOSE m \in hits : TRUE, Drop(i, 3)))

\* The two bytes scan::timezone_offset reads for the hours and the minutes:
\* fewer than two bytes is TooShort, and a byte of a character outside ASCII
\* is no digit.
TwoDigits(i, first) ==
    IF ByteLen(i) < 2 THEN "TooShort"
    ELSE IF Len(i) >= 2 /\ i[1] \in first /\ i[2] \in Digits THEN "Ok"
    ELSE IF Len(i) >= 2 /\ i[1] \in Digits /\ i[2] \in Digits THEN "OutOfRange"
    ELSE "Invalid"

\* %z, scan::timezone_offset: white space, a sign ('+', '-' or the minus
\* sign U+2212), two digits of hours, any run of ':' and white space, two
\* digits of minutes (00 to 59).
chrono_offset(i) ==
    Let(trim_start(i), LAMBDA t :
    IF t = <<>> THEN Err("TooShort", i)
    ELSE IF t[1] \notin {"+", "-", "U+2212"} THEN Err("Invalid", i)
    ELSE Let(Drop(t, 1), LAMBDA h :
         IF TwoDigits(h, Digits) # "Ok" THEN Err(TwoDigits(h, Digits), i)
         ELSE Let(Drop(h, 2 + RunLen(Drop(h, 2), UnicodeSpace \cup {":"})), LAMBDA m :
              IF TwoDigits(m, {"0", "1", "2", "3", "4", "5"}) # "Ok"
              THEN Err(TwoDigits(m, {"0", "1", "2", "3", "4", "5"}), i)
              ELSE Ok((IF t[1] = "+" THEN 1 ELSE -1)
                         * (BigToInt(Take(h, 2)) * 3600 + BigToInt(Take(m, 2)) * 60),
                      Drop(m, 2)))))

IsLeapYear(y) == y % 4 = 0 /\ (y % 100 # 0 \/ y % 400 = 0)

DaysInMonth(y, m) ==
    IF m = 2 THEN (IF IsLeapYear(y) THEN 29 ELSE 28)
    ELSE IF m \in {4, 6, 9, 11} THEN 30 ELSE 31

\* Days from 1970-01-01 to the civil date y-m-d.
DaysFromCivil(y, m, d) ==
    Let(IF m <= 2 THEN y - 1 ELSE y, LAMBDA yy :
    Let(yy - (yy \div 400) * 400, LAMBDA yoe :
    (yy \div 400) * 146097 + yoe * 365 + yoe \div 4 - yoe \div 100
        + (153 * (IF m > 2 THEN m - 3 ELSE m + 9) + 2) \div 5 + d - 1 - 719468))

\* The years of NaiveDate::MIN and NaiveDate::MAX.
YearInRange(y) == -262143 <= y /\ y <= 262142

\* What follows the items: nothing may be left of the text (the fields have
\* passed Parsed::set_*, which refuses a value outside its range as soon as
\* it is read); Parsed::to_datetime then needs an offset below a day and a
\* date of the calendar, and the instant in UTC must be a NaiveDateTime.
\* with_timezone(&Utc): the instant as days since the epoch and the second
\* of the day (leap: a :60 second).
chrono_resolve(d, b, y, hh, mm, ss, z, left) ==
    IF d < 1 \/ d > 31 \/ hh < 0 \/ hh > 23 \/ mm < 0 \/ mm > 59 \/ ss < 0 \/ ss > 60
    THEN [ok |-> FALSE, err |-> "OutOfRange"]
    ELSE IF left # <<>> THEN [ok |-> FALSE, err |-> "TooLong"]
    ELSE IF z >= 86400 \/ z <= -86400 \/ ~YearInRange(y) \/ d > DaysInMonth(y, b)
    THEN [ok |-> FALSE, err |-> "OutOfRange"]
    ELSE Let(hh * 3600 + mm * 60 + (IF ss = 60 THEN 59 ELSE ss) - z, LAMBDA utc :
         Let(DaysFromCivil(y, b, d) + utc \div 86400, LAMBDA days :
         IF days < DaysFromCivil(-262143, 1, 1) \/ days > DaysFromCivil(262142, 12, 31)
         THEN [ok |-> FALSE, err |-> "Impossible"]
         ELSE [ok |-> TRUE,
               val |-> [days |-> days, secs |-> utc % 86400, leap |-> ss = 60]]))

chrono_parse_from_str(s) ==
    Let(Try(chrono_set(1, 31, chrono_number(2, FALSE, s)), LAMBDA d :
        Try(chrono_literal("/", d.rest), LAMBDA s1 :
        Try(chrono_short_month(s1.rest), LAMBDA b :
        Try(chrono_literal("/", b.rest), LAMBDA s2 :
        Try(chrono_set_year(chrono_number(4, TRUE, s2.rest)), LAMBDA y :
        Try(chrono_literal(":", y.rest), LAMBDA c1 :
        Try(chrono_set(0, 23, chrono_number(2, FALSE, c1.rest)), LAMBDA hh :
        Try(chrono_literal(":", hh.rest), LAMBDA c2 :
        Try(chrono_set(0, 59, chrono_number(2, FALSE, c2.rest)), LAMBDA mm :
        Try(chrono_literal(":", mm.rest), LAMBDA c3 :
        Try(chrono_set(0, 60, chrono_number(2, FALSE, c3.rest)), LAMBDA ss :
        Try(chrono_offset(ss.rest), LAMBDA z :
        Ok(chrono_resolve(d.val, b.val, y.val, hh.val, mm.val, ss.val, z.val, z.rest),
           z.rest))))))))))))), LAMBDA r :
    IF r.ok THEN r.val ELSE [ok |-> FALSE, err |-> r.err])

\* Result::unwrap() on an Err: the thread panics; nothing is returned.
Panic(r) == [ok |-> FALSE, err |-> "panic", rest |-> r]

IsPanic(r) == ~r.ok /\ r.err = "panic"

parse_datetime(i) ==
    Try(literal(<<"[">>, i), LAMBDA l :
    Try(take_till(0, "]", l.rest), LAMBDA datetime :
    Try(literal(<<"]">>, datetime.rest), LAMBDA r :
    Try(space0(r.rest), LAMBDA sp :
    Let(chrono_parse_from_str(datetime.val), LAMBDA dt :
    IF dt.ok THEN Ok(dt.val, sp.rest) ELSE Panic(sp.rest))))))

HttpMethods ==
    <<"GET", "POST", "PUT", "DELETE", "HEAD", "OPTIONS", "CONNECT", "TRACE", "PATCH">>

HttpVersions == <<"HTTP/1.0", "HTTP/1.1", "HTTP/2.0", "HTTP/3.0">>

\* <HttpMethod as FromStr>::from_str
HttpMethod_from_str(s) ==
    IF \E k \in 1..Len(HttpMethods) : Chars(HttpMethods[k]) = s
    THEN [ok |-> TRUE, val |-> HttpMethods[CHOOSE k \in 1..Len(HttpMethods) : Chars(HttpMethods[k]) = s]]
    ELSE [ok |-> FALSE, err |-> "Invalid http method"]

\* <HttpVersion as FromStr>::from_str
HttpVersion_from_str(s) ==
    IF \E k \in 1..Len(HttpVersions) : Chars(HttpVersions[k]) = s
    THEN [ok |-> TRUE, val |-> HttpVersions[CHOOSE k \in 1..Len(HttpVersions) : Chars(HttpVersions[k]) = s]]
    ELSE [ok |-> FALSE, err |-> "Invalid http version"]

\* alt((..literals..)).parse_to(): the conversion sees only a matched
\* literal; were it to fail, parse_to would rewind and raise "ParseTo".
parse_http_method(i) ==
    Try(alt_literals([k \in 1..Len(HttpMethods) |-> Chars(HttpMethods[k])], i), LAMBDA tok :
    Let(HttpMethod_from_str(tok.val), LAMBDA m :
    IF ~m.ok THEN Err("ParseTo", i)
    ELSE Try(space0(tok.rest), LAMBDA sp : Ok(m.val, sp.rest))))

parse_url(i) ==
    Try(take_till(1, " ", i), LAMBDA url :
    Try(space0(url.rest), LAMBDA sp :
    Ok(url.val, sp.rest)))

parse_http_version(i) ==
    Try(alt_literals([k \in 1..Len(HttpVersions) |-> Chars(HttpVersions[k])], i), LAMBDA tok :
    Let(HttpVersion_from_str(tok.val), LAMBDA v :
    IF ~v.ok THEN Err("ParseTo", i)
    ELSE Try(space0(tok.rest), LAMBDA sp : Ok(v.val, sp.rest))))

parse_http(i) ==
    Try(literal(<<"\"">>, i), LAMBDA l :
    Try(parse_http_method(l.rest), LAMBDA method :
    Try(parse_url(method.rest), LAMBDA url :
    Try(parse_http_version(url.rest), LAMBDA version :
    Try(literal(<<"\"">>, version.rest), LAMBDA r :
    Try(space0(r.rest), LAMBDA sp :
    Ok(<<method.val, url.val, version.val>>, sp.rest)))))))

parse_status(i) ==
    Try(digit1_to_small(U16Max, i), LAMBDA ret :
    Try(space0(ret.rest), LAMBDA sp :
    Ok(ret.val, sp.rest)))

\* The size is a u64: kept as its canonical digits.
parse_body_bytes(i) ==
    Try(digit1(i), LAMBDA d :
    Let(ParseBig(d.val, U64Max), LAMBDA v :
    IF ~v.some THEN Err("ParseTo", i)
    ELSE Try(space0(d.rest), LAMBDA sp : Ok(v.v, sp.rest))))

parse_quoted_string(i) ==
    Try(literal(<<"\"">>, i), LAMBDA l :
    Try(take_until(1, "\"", l.rest), LAMBDA ret :
    Try(literal(<<"\"">>, ret.rest), LAMBDA r :
    Try(space0(r.rest), LAMBDA sp :
    Ok(ret.val, sp.rest)))))

\* parse_nginx_log as one function of the line: the eight field parsers in
\* order, each behind a `?`, then the record.
parse_nginx_log(text) ==
    Try(parse_ip(text), LAMBDA ip :
    Try(parse_ignore(ip.rest), LAMBDA ig :
    Try(parse_datetime(ig.rest), LAMBDA datetime :
    Try(parse_http(datetime.rest), LAMBDA http :
    Try(parse_status(http.rest), LAMBDA status :
    Try(parse_body_bytes(status.rest), LAMBDA body_bytes :
    Try(parse_quoted_string(body_bytes.rest), LAMBDA referer :
    Try(parse_quoted_string(referer.rest), LAMBDA user_agent :
    Ok([addr |-> ip.val, datetime |-> datetime.val, method |-> http.val[1],
        path |-> http.val[2], http_version |-> http.val[3],
        status_code |-> status.val, size |-> body_bytes.val,
        referer |-> referer.val, user_agent |-> user_agent.val],
       user_agent.rest)))))))))

(***************************************************************************)
(* The inputs                                                              *)
(***************************************************************************)
MaxToks == 4

MaxDigits == 2

MaxWs == 1

MaxVariants == 2

RECURSIVE Flatten(_)
Flatten(ts) == IF ts = <<>> THEN <<>> ELSE Chars(Head(ts)) \o Flatten(Tail(ts))

\* Every text of at most MaxToks JSON tokens.
JsonTokens == {"[", "]", "{", "}", ",", ":", "1", "\"a\"", "null"}

JsonTexts == {Flatten(ts) : ts \in UNION {[1..k -> JsonTokens] : k \in 0..MaxToks}}

\* Number literals: a sign, an integer run, a fraction, a tail.
DigitRuns == {Flatten(ds) : ds \in UNION {[1..k -> {"0", "5"}] : k \in 1..MaxDigits}}

IntRuns == DigitRuns \cup {Chars("123"), I64Max, Chars("9223372036854775808")}

FracRuns == {<<>>} \cup {<<".">> \o f : f \in DigitRuns \cup {Chars("456")}}

NumTexts ==
    {s \o n \o f \o t : s \in {<<>>, <<"-">>}, n \in IntRuns, f \in FracRuns,
                        t \in {<<>>, <<".">>, <<"x">>}}

\* Documents whose white space around the punctuation is then edited.
WsBases ==
    {Chars(s) : s \in {"[]", "{}", "[1]", "[1, 1]", "[1,]", "[,1]", "[[1],[]]",
                       "{\"a\": 1}", "{\"a\":1,}", "{\"a\":1,\"a\":[]}",
                       "{\"a,b\":\"[\"}", "[\"a\",-1.5]", "[1.,1]", "{\"a\"1}",
                       "[true,false,null]", "nullx", "-", "-x", "\"a", "1]"}}

\* Complete JSON values, and texts that follow one.
JsonValueTexts ==
    {Chars(s) : s \in {"null", "true", "false", "\"a\"", "7", "-7", "7.5", "[7]",
                       "[7, \"a\"]", "{\"a\":7}", "[ ]"}}

JsonTails == {Chars(s) : s \in {"x", "]", " 7", ",", "null", "5", ".5", ".", "}", "\""}}

\* Log lines: the line of the README with at most MaxVariants fields replaced.
LogFieldTexts ==
    << <<"93.180.71.3", "1.2.3.4", "999.1.1.1", "1.2.3">>,
       <<" - - ", " - -", "  frank - ">>,
       <<"[17/May/2015:08:05:32 +0000] ", "[10/Oct/2000:23:55:36 -0700] ",
         "[32/May/2015:08:05:32 +0000] ", "[] ",
         "17/May/2015:08:05:32 +0000 ", "[17/May/+2015:08:05:32 +07: 00] ">>,
       <<"\"GET /downloads/product_1 HTTP/1.1\" ", "\"POST /a HTTP/2.0\" ",
         "\"FETCH /a HTTP/1.1\" ", "\"GET /a HTTP/9.9\" ", "\"GETX HTTP/1.0\" ",
         "\"GET /a\" ">>,
       <<"304 ", "70000 ", "- ">>,
       <<"0 ", "18446744073709551615 ", "18446744073709551616 ">>,
       <<"\"-\" ", "\"\" ">>,
       <<"\"Debian APT-HTTP/1.3 (0.8.16~exp12ubuntu10.21)\"", "\"curl\"", "curl">>,
       <<"", " ", " trailing \"junk\"">> >>

\* Timestamps with characters outside ASCII: an ideographic space and the
\* minus sign before the offset; an ideographic space among its digits.
UnicodeStamps ==
    << Chars("[17/May/2015:08:05:32") \o <<"U+3000", "U+2212">> \o Chars("0700] "),
       Chars("[17/May/2015:08:05:32 +0") \o <<"U+3000">> \o Chars("] ") >>

LogFields ==
    [f \in 1..Len(LogFieldTexts) |->
        [k \in 1..Len(LogFieldTexts[f]) |-> Chars(LogFieldTexts[f][k])]
            \o (IF f = 3 THEN UnicodeStamps ELSE <<>>)]

\* The concatenation of a sequence of texts.
RECURSIVE Concat(_)
Concat(ts) == IF ts = <<>> THEN <<>> ELSE Head(ts) \o Concat(Tail(ts))

LogChoices ==
    UNION {{[f \in 1..Len(LogFields) |-> IF f \in F THEN g[f] ELSE 1] :
               g \in {h \in [F -> 2..8] : \A f \in F : h[f] <= Len(LogFields[f])}} :
           F \in {G \in SUBSET (1..Len(LogFields)) : Cardinality(G) <= MaxVariants}}

LogLine(c) == Concat([f \in 1..Len(LogFields) |-> LogFields[f][c[f]]])

\* The line without what follows its user-agent field.
LogLineOf(c) == LogLine([c EXCEPT ![Len(LogFields)] = 1])

LogLines == {LogLine(c) : c \in LogChoices}

(***************************************************************************)
(* The state machine: a text is chosen, its white space may be edited, and *)
(* one parser is called on it.  parse_nginx_log runs field by field.       *)
(***************************************************************************)
\* base is the text as first written; input is the text handed to the
\* parser: base, base with its white space edited, or base and what follows
\* it (a JSON value and a tail, a log line and its last field).
Ready(b, text) ==
    /\ pc = "ready" /\ input = text /\ base = b /\ rest = text
    /\ called = "" /\ result = [ok |-> FALSE] /\ trace = <<>> /\ locals = <<>>

Init ==
    \/ \E text \in JsonTexts \cup NumTexts \cup WsBases : Ready(text, text)
    \/ \E b \in JsonValueTexts, t \in JsonTails : Ready(b, b \o t)
    \/ \E c \in LogChoices : Ready(LogLineOf(c), LogLine(c))

Punctuation == {"[", "]", "{", "}", ",", ":"}

WsChars == {" ", "\t", "\n"}

\* Position p of text t lies inside a string literal.
InString(t, p) == Cardinality({k \in 1..(p - 1) : t[k] = "\""}) % 2 = 1

IsPunct(t, p) == p \in 1..Len(t) /\ t[p] \in Punctuation /\ ~InString(t, p)

InsertAt(t, p, c) == Take(t, p - 1) \o <<c>> \o Drop(t, p - 1)

RemoveAt(t, p) == Take(t, p - 1) \o Drop(t, p)

InsertWhitespace ==
    /\ pc = "ready" /\ base \in WsBases /\ Len(input) < Len(base) + MaxWs
    /\ \E p \in 1..Len(input), side \in {0, 1}, c \in WsChars :
          /\ IsPunct(input, p)
          /\ input' = InsertAt(input, p + side, c)
    /\ rest' = input'
    /\ UNCHANGED <<pc, base, called, result, trace, locals>>

RemoveWhitespace ==
    /\ pc = "ready" /\ base \in WsBases
    /\ \E p \in 1..Len(input) :
          /\ input[p] \in WsChars /\ ~InString(input, p)
          /\ IsPunct(input, p - 1) \/ IsPunct(input, p + 1)
          /\ input' = RemoveAt(input, p)
    /\ rest' = input'
    /\ UNCHANGED <<pc, base, called, result, trace, locals>>

\* A direct call parser(&mut input), as the unit tests make.
Call(name, r) ==
    /\ pc = "ready"
    /\ pc' = "done" /\ called' = name /\ result' = r /\ rest' = r.rest
    /\ UNCHANGED <<input, base, trace, locals>>

CallParseNull == Call("parse_null", parse_null(input))

CallParseBool == Call("parse_bool", parse_bool(input))

CallParseNum == Call("parse_num", parse_num(input))

CallParseString == Call("parse_string", parse_string(input))

CallSepWithSpace == \E ch \in Punctuation : Call("sep_with_space", sep_with_space(ch, input))

CallParseArray == Call("parse_array", parse_array(input))

CallParseObject == Call("parse_object", parse_object(input))

CallParseValue == Call("parse_value", parse_value(input))

\* parse_json works on a cursor of its own: the caller's text stays.
CallParseJson ==
    /\ pc = "ready"
    /\ pc' = "done" /\ called' = "parse_json" /\ result' = parse_json(input)
    /\ UNCHANGED <<input, base, rest, trace, locals>>

\* ---- parse_nginx_log, one field step at a time ----
StepOrder ==
    <<"parse_ip", "parse_ignore", "parse_datetime", "parse_http", "parse_status",
      "parse_body_bytes", "parse_referer", "parse_user_agent">>

Outcome(r) == IF r.ok THEN "ok" ELSE IF IsPanic(r) THEN "panic" ELSE "err"

\* fields: the locals the step binds, as name :> value.
\* `?`: an Err returns it from parse_nginx_log at once; a panic unwinds.
Step(name, r, fields, next) ==
    /\ pc = name
    /\ trace' = Append(trace, [step |-> name, at |-> rest, outcome |-> Outcome(r)])
    /\ rest' = r.rest
    /\ IF r.ok
       THEN /\ pc' = next /\ locals' = locals \o fields
            /\ UNCHANGED result
       ELSE /\ pc' = IF IsPanic(r) THEN "panicked" ELSE "done"
            /\ result' = r /\ UNCHANGED locals
    /\ UNCHANGED <<input, base, called>>

Field(name, r) == IF r.ok THEN <<[name |-> name, val |-> r.val]>> ELSE <<>>

StartNginxLog ==
    /\ pc = "ready" /\ input \in LogLines
    /\ pc' = "parse_ip" /\ called' = "parse_nginx_log" /\ rest' = input
    /\ UNCHANGED <<input, base, result, trace, locals>>

ParseIp ==
    LET r == parse_ip(rest) IN Step("parse_ip", r, Field("addr", r), "parse_ignore")

ParseIgnore ==
    LET r == parse_ignore(rest) IN Step("parse_ignore", r, <<>>, "parse_datetime")

ParseDatetime ==
    LET r == parse_datetime(rest)
    IN  Step("parse_datetime", r, Field("datetime", r), "parse_http")

ParseHttp ==
    LET r == parse_http(rest)
        f == IF r.ok THEN <<[name |-> "method", val |-> r.val[1]],
                            [name |-> "path", val |-> r.val[2]],
                            [name |-> "http_version", val |-> r.val[3]]>>
             ELSE <<>>
    IN  Step("parse_http", r, f, "parse_status")

ParseStatus ==
    LET r == parse_status(rest)
    IN  Step("parse_status", r, Field("status_code", r), "parse_body_bytes")

ParseBodyBytes ==
    LET r == parse_body_bytes(rest)
    IN  Step("parse_body_bytes", r, Field("size", r), "parse_referer")

ParseReferer ==
    LET r == parse_quoted_string(rest)
    IN  Step("parse_referer", r, Field("referer", r), "parse_user_agent")

ParseUserAgent ==
    LET r == parse_quoted_string(rest)
    IN  Step("parse_user_agent", r, Field("user_agent", r), "build")

\* Ok(NginxLog { .. }): the record is built from the nine locals.
ReturnLog ==
    /\ pc = "build"
    /\ pc' = "done"
    /\ result' = [ok |-> TRUE,
                  val |-> [n \in {locals[k].name : k \in 1..Len(locals)} |->
                             locals[CHOOSE k \in 1..Len(locals) : locals[k].name = n].val]]
    /\ UNCHANGED <<input, base, rest, called, trace, locals>>

Next ==
    \/ InsertWhitespace \/ RemoveWhitespace
    \/ CallParseNull \/ CallParseBool \/ CallParseNum \/ CallParseString
    \/ CallSepWithSpace \/ CallParseArray \/ CallParseObject \/ CallParseValue
    \/ CallParseJson
    \/ StartNginxLog \/ ParseIp \/ ParseIgnore \/ ParseDatetime \/ ParseHttp
    \/ ParseStatus \/ ParseBodyBytes \/ ParseReferer \/ ParseUserAgent \/ ReturnLog

Spec == Init /\ [][Next]_vars

(***************************************************************************)
(* Properties                                                              *)
(***************************************************************************)
Direct(name) == pc = "done" /\ called = name

\* The text after an optional leading '-'.
Unsigned(t) == IF t # <<>> /\ t[1] = "-" THEN Tail(t) ELSE t

Negative(t) == t # <<>> /\ t[1] = "-"

\* t is [-]digits.digits and nothing more.
IsFloatLiteral(t) ==
    LET u == Unsigned(t)
        n == RunLen(u, Digits)
        f == Drop(u, n + 1)
    IN  n >= 1 /\ Len(u) > n + 1 /\ u[n + 1] = "." /\ RunLen(f, Digits) = Len(f)

\* t begins [-]digits, and no '.' follows the digits.
IsIntLiteral(t) ==
    LET u == Unsigned(t)
        n == RunLen(u, Digits)
    IN  n >= 1 /\ (Len(u) = n \/ u[n + 1] # ".")

IntRun(t) == Take(Unsigned(t), RunLen(Unsigned(t), Digits))

\* Digit runs compared as numbers: padded with zeros to one length, then
\* compared position by position.
Pad(ds, n) == [k \in 1..n |-> IF k <= n - Len(ds) THEN "0" ELSE ds[k - (n - Len(ds))]]

Widest(a, b) == IF Len(a) > Len(b) THEN Len(a) ELSE Len(b)

SameNatural(a, b) == Pad(a, Widest(a, b)) = Pad(b, Widest(a, b))

NatLE(a, b) ==
    LET x == Pad(a, Widest(a, b))
        y == Pad(b, Widest(a, b))
    IN  \/ x = y
        \/ \E k \in 1..Len(x) :
              /\ DigitVal(x[k]) < DigitVal(y[k])
              /\ \A j \in 1..(k - 1) : x[j] = y[j]

IsZero(ds) == \A k \in 1..Len(ds) : ds[k] = "0"

\* C1: parse_num on a literal [-]digits.digits yields the Float that is the
\* floating-point reading of the literal's own text, the fraction's leading
\* zeros included.
C1_FloatIsReadingOfLiteral ==
    (Direct("parse_num") /\ IsFloatLiteral(input))
        => /\ result.ok
           /\ result.val = NumFloat(Negative(input), f64_from_str(Unsigned(input)))

\* C5 as stated: parse_num on [-]digits (no '.' after them) yields the Int
\* of exactly that value, whatever the digits.
C5_IntOfEveryDigitRun ==
    (Direct("parse_num") /\ IsIntLiteral(input))
        => /\ result.ok
           /\ result.val.num = "Int"
           /\ SameNatural(result.val.mag, IntRun(input))
           /\ result.val.neg = (Negative(input) /\ ~IsZero(IntRun(input)))

\* C5 as amended: the same for digit runs of value at most i64::MAX, with
\* the cursor left right after the digits; a run of greater value (so also
\* the magnitude of i64::MIN) makes parse_num fail.
C5_IntOfDigitRunInRange ==
    (Direct("parse_num") /\ IsIntLiteral(input))
        => IF NatLE(IntRun(input), I64Max)
           THEN /\ result.ok
                /\ result.val.num = "Int"
                /\ SameNatural(result.val.mag, IntRun(input))
                /\ result.val.neg = (Negative(input) /\ ~IsZero(IntRun(input)))
                /\ rest = Drop(Unsigned(input), Len(IntRun(input)))
           ELSE ~result.ok

C5_Witness ==
    /\ Direct("parse_num") /\ input = <<"-">> \o I64Max
    /\ result.ok /\ result.val.neg /\ result.val.mag = I64Max

\* t is an opening l, white space only, and a closing r.
IsEmptyPair(t, l, r) ==
    /\ Len(t) >= 2 /\ t[1] = l /\ t[Len(t)] = r
    /\ \A k \in 2..(Len(t) - 1) : t[k] \in MultiSpace

\* C6: "[]", with any white space between, parses to the empty Array; "{}",
\* with any white space between, fails every alternative of parse_value, so
\* parse_json fails; an Object that is accepted holds at least one pair.
C6_EmptyArrayYesEmptyObjectNo ==
    /\ (pc = "done" /\ called \in {"parse_json", "parse_value"})
          => /\ IsEmptyPair(input, "[", "]")
                   => result.ok /\ result.val = JArray(<<>>)
             /\ IsEmptyPair(input, "{", "}")
                   => /\ ~result.ok
                      /\ ~parse_null(input).ok /\ ~parse_bool(input).ok
                      /\ ~parse_num(input).ok /\ ~parse_string(input).ok
                      /\ ~parse_array(input).ok /\ ~parse_object(input).ok
             /\ (result.ok /\ result.val.t = "Object") => DOMAIN result.val.v # {}
    /\ (Direct("parse_object") /\ result.ok) => DOMAIN result.val # {}

C6_Witness ==
    /\ Direct("parse_json") /\ base = Chars("{}") /\ Len(input) > Len(base)
    /\ IsEmptyPair(input, "{", "}") /\ ~result.ok

\* C7: white space added or removed next to a punctuation token, outside
\* string literals, changes neither whether parse_json accepts the text nor
\* the value it yields.
C7_WhitespaceInsensitive ==
    (Direct("parse_json") /\ base \in WsBases) => result = parse_json(base)

C7_Witness ==
    /\ Direct("parse_json") /\ input # base
    /\ result.ok /\ result.val.t = "Object"

\* C8: a parser that fails leaves the cursor where it was called, and one
\* that succeeds has advanced it.
C8_FailureLeavesCursorInPlace ==
    /\ (pc = "done" /\ called \in {"parse_null", "parse_bool", "parse_num",
                                   "parse_string", "sep_with_space", "parse_array",
                                   "parse_object", "parse_value"})
          => IF result.ok THEN Len(rest) < Len(input) ELSE rest = input
    /\ (called = "parse_nginx_log" /\ trace # <<>>)
          => IF trace[Len(trace)].outcome = "ok"
             THEN Len(rest) < Len(trace[Len(trace)].at)
             ELSE rest = trace[Len(trace)].at

\* The text the parser consumed.
Consumed == Take(input, Len(input) - Len(rest))

\* A ',' outside strings whose next character, white space aside, closes
\* an array or an object.
HasTrailingComma(t) ==
    \E p \in 1..Len(t) :
        /\ IsPunct(t, p) /\ t[p] = ","
        /\ LET q == p + 1 + RunLen(Drop(t, p), MultiSpace)
           IN  q <= Len(t) /\ t[q] \in {"]", "}"}

\* C9: a separator whose item fails is not consumed, so a trailing ',' is
\* never skipped: no accepted array, object or value has consumed one, and
\* on "[1,]" and {"a":1,} the closing delimiter fails at the ',' itself.
C9_TrailingSeparatorNotConsumed ==
    /\ (pc = "done" /\ called \in {"parse_array", "parse_object", "parse_value"}
            /\ result.ok)
          => ~HasTrailingComma(Consumed)
    /\ (\/ Direct("parse_array") /\ base = Chars("[1,]")
        \/ Direct("parse_object") /\ base = Chars("{\"a\":1,}"))
          => ~result.ok /\ rest # <<>> /\ Head(rest) = ","

C9_Witness ==
    /\ Direct("parse_array") /\ base = Chars("[1,]") /\ input # base
    /\ ~result.ok /\ Head(rest) = ","

\* ---- parse_nginx_log ----
StepsRun == [k \in 1..Len(trace) |-> trace[k].step]

LastStep == trace[Len(trace)]

LogFieldNames ==
    {"addr", "datetime", "method", "path", "http_version", "status_code", "size",
     "referer", "user_agent"}

\* C2: the field steps run in the fixed order; a record is returned only when
\* all eight have succeeded, and it holds what they produced; as soon as a
\* step has not succeeded no later step runs and the call returns a failure,
\* with no record: the call ends in no way other than a return.
C2_AllOrNothingInOrder ==
    called = "parse_nginx_log"
        => /\ Len(trace) <= Len(StepOrder)
           /\ StepsRun = Take(StepOrder, Len(trace))
           /\ \A k \in 1..(Len(trace) - 1) : trace[k].outcome = "ok"
           /\ result.ok
                 => /\ pc = "done" /\ StepsRun = StepOrder /\ LastStep.outcome = "ok"
                    /\ DOMAIN result.val = LogFieldNames
                    /\ parse_nginx_log(input).ok
                    /\ result.val = parse_nginx_log(input).val
                    /\ result.val.addr = parse_ip(trace[1].at).val
                    /\ result.val.status_code = parse_status(trace[5].at).val
                    /\ result.val.user_agent = parse_quoted_string(trace[8].at).val
           /\ (trace # <<>> /\ LastStep.outcome # "ok")
                 => pc = "done" /\ ~result.ok /\ ~IsPanic(result)
           /\ pc = "done" => (result.ok \/ LastStep.outcome = "err")
           /\ pc # "panicked"

\* The request line at the cursor where parse_http was entered.
HttpStepRun == called = "parse_nginx_log" /\ Len(trace) >= 4

RequestLine == Tail(trace[4].at)

\* The verb: the text up to the first space or quote.
Token(t) == Take(t, RunLenTill(t, {" ", "\""}))

\* The path: the run of characters up to the first space.
Word(t) == Take(t, RunLenTill(t, {" "}))

SkipSpace(t) == Drop(t, RunLen(t, Space))

PathText == SkipSpace(Drop(RequestLine, Len(Token(RequestLine))))

VersionText == SkipSpace(Drop(PathText, Len(Word(PathText))))

IsOneOf(tok, names) == \E k \in 1..Len(names) : Chars(names[k]) = tok

BeginsWithOneOf(t, names) == \E k \in 1..Len(names) : StartsWith(t, Chars(names[k]))

Quoted == HttpStepRun /\ trace[4].at # <<>> /\ trace[4].at[1] = "\""

\* The verb is not one of the nine methods, or it is and the token after the
\* path is not one of the four versions.
UnknownVerb == Quoted /\ ~IsOneOf(Token(RequestLine), HttpMethods)

UnknownVersion ==
    /\ Quoted /\ IsOneOf(Token(RequestLine), HttpMethods)
    /\ Word(PathText) # <<>>
    /\ ~IsOneOf(Token(VersionText), HttpVersions)

\* C3: a request line whose verb is not one of the nine methods, or whose
\* protocol token is not one of the four versions, makes the request step
\* fail, and no record is produced.
C3_UnknownVerbOrVersionFails ==
    (UnknownVerb \/ UnknownVersion) => trace[4].outcome = "err" /\ ~result.ok

\* The timestamp field at the cursor where parse_datetime was entered: it is
\* delimited by '[' and ']', and its interior does not parse.
MalformedTimestamp ==
    /\ called = "parse_nginx_log" /\ Len(trace) >= 3
    /\ LET at == trace[3].at
           n == RunLenTill(at, {"]"})
       IN  /\ at # <<>> /\ at[1] = "[" /\ n < Len(at)
           /\ ~chrono_parse_from_str(SubSeq(at, 2, n)).ok

\* C4: a well-delimited timestamp whose interior is malformed or out of range
\* makes parse_datetime, and so parse_nginx_log, return a failure; the call
\* ends in no way other than a returned success or a returned failure.
C4_MalformedTimestampReturnsFailure ==
    /\ pc # "panicked"
    /\ MalformedTimestamp => pc = "done" /\ ~result.ok /\ ~IsPanic(result)

\* The tail continues the number the value ends with.
ExtendsNumber ==
    /\ base # <<>> /\ Len(input) > Len(base)
    /\ base[Len(base)] \in Digits /\ input[Len(base) + 1] \in Digits \cup {"."}

\* C10: neither entry point looks for the end of its input: a line that
\* parse_nginx_log accepts is accepted with the same record whatever follows
\* it; a text that parse_json accepts is accepted with the same value
\* whatever follows it (short of more digits or a '.' after a final number),
\* and parse_json yields Null for "null" followed by anything.
C10_NoEndOfInputCheck ==
    /\ (called = "parse_nginx_log" /\ pc = "done" /\ parse_nginx_log(base).ok)
          => result.ok /\ result.val = parse_nginx_log(base).val
    /\ (/\ Direct("parse_json") /\ StartsWith(input, base)
        /\ parse_json(base).ok /\ ~ExtendsNumber)
          => result = parse_json(base)
    /\ (Direct("parse_json") /\ StartsWith(input, Chars("null")))
          => result = [ok |-> TRUE, val |-> JNull]

C10_Witness ==
    /\ called = "parse_nginx_log" /\ pc = "done" /\ result.ok
    /\ Len(input) > Len(base) + 1
====
